---- MODULE Spec2Model ----
(***************************************************************************)
(* Model of the SpurStore support chat backend: the ChatService            *)
(* orchestrator (processMessage and its helpers), the LLMService adapter,  *)
(* the validation middleware and the ChatController, over a store of       *)
(* Conversation and Message records.                                       *)
(*                                                                         *)
(* Texts are run-length encoded: a text is a sequence of runs              *)
(* [u |-> unit, n |-> count], the unit being a short string repeated n     *)
(* times, so that the real limits (5000, 2000) are kept without            *)
(* enumerating characters.  Error messages are sequences of fragments,     *)
(* cut at the substrings the code searches for with String.includes.       *)
(***************************************************************************)
EXTENDS Integers, Sequences, FiniteSets, Bags, TLC

(***************************************************************************)
(* Bounds of the model.                                                    *)
(***************************************************************************)
MaxCalls == 2

(***************************************************************************)
(* Program constants.                                                      *)
(***************************************************************************)
MaxMessageLength == 5000
HistoryLimit == 10
MaxPromptMessage == 2000
PromptWindow == 5

(***************************************************************************)
(* Texts.                                                                  *)
(***************************************************************************)
FallbackText == "I apologize, but I'm having trouble accessing our knowledge base. Please try again in a moment, or contact support@spurstore.com for immediate assistance."

UnitLen(u) ==
  CASE u = "&lt;" -> 4
    [] u = "&gt;" -> 4
    [] u = "&lt" -> 3
    [] u = "&gt" -> 3
    [] u = "&l" -> 2
    [] u = "&g" -> 2
    [] u = "..." -> 3
    [] u = FallbackText -> 154
    [] OTHER -> 1

Run(u, n) == [u |-> u, n |-> n]

RECURSIVE TextLen(_)
TextLen(t) ==
  IF t = << >> THEN 0
  ELSE UnitLen(Head(t).u) * Head(t).n + TextLen(Tail(t))

IsWhitespace(r) == r.u = " "

RECURSIVE TrimStart(_)
TrimStart(t) ==
  IF t = << >> THEN << >>
  ELSE IF IsWhitespace(Head(t)) THEN TrimStart(Tail(t))
  ELSE t

RECURSIVE TrimEnd(_)
TrimEnd(t) ==
  IF t = << >> THEN << >>
  ELSE IF IsWhitespace(t[Len(t)]) THEN TrimEnd(SubSeq(t, 1, Len(t) - 1))
  ELSE t

Trim(t) == TrimEnd(TrimStart(t))

PrefixUnit(u, k) ==
  CASE u = "&lt;" /\ k = 1 -> "&"
    [] u = "&lt;" /\ k = 2 -> "&l"
    [] u = "&lt;" /\ k = 3 -> "&lt"
    [] u = "&gt;" /\ k = 1 -> "&"
    [] u = "&gt;" /\ k = 2 -> "&g"
    [] u = "&gt;" /\ k = 3 -> "&gt"
    [] OTHER -> u

(* String.prototype.substring(0, k) *)
RECURSIVE Substring(_, _)
Substring(t, k) ==
  IF t = << >> \/ k <= 0 THEN << >>
  ELSE LET r == Head(t)
           w == UnitLen(r.u)
       IN IF w * r.n <= k
          THEN << r >> \o Substring(Tail(t), k - w * r.n)
          ELSE (IF k \div w > 0 THEN << Run(r.u, k \div w) >> ELSE << >>)
               \o (IF k % w > 0 THEN << Run(PrefixUnit(r.u, k % w), 1) >>
                   ELSE << >>)

(* .replace(/</g, '&lt;').replace(/>/g, '&gt;') *)
RECURSIVE EscapeAngles(_)
EscapeAngles(t) ==
  IF t = << >> THEN << >>
  ELSE LET r == Head(t)
       IN << Run(IF r.u = "<" THEN "&lt;"
                 ELSE IF r.u = ">" THEN "&gt;" ELSE r.u, r.n) >>
          \o EscapeAngles(Tail(t))

(***************************************************************************)
(* Session identifiers: <<kind, n>>.  undefined and the empty string are   *)
(* the falsy values of the optional sessionId; "client" ids are chosen by  *)
(* the caller, "session" ids are minted by getOrCreateConversation from    *)
(* Date.now() and a random suffix (taken to be distinct from every id      *)
(* minted or supplied before).                                             *)
(***************************************************************************)
Undefined == << "undefined", 0 >>
EmptyString == << "", 0 >>
ClientId(k) == << "client", k >>
MintedId(n) == << "session", n >>
Truthy(sid) == sid[1] \notin {"undefined", ""}

(***************************************************************************)
(* Error messages, as sequences of fragments.                              *)
(***************************************************************************)
ErrEmpty == << "Message ", "cannot be empty" >>
ErrTooLong == << "Message is ", "too long", ". Please limit to 5000 characters." >>
ErrUnique == << "Unique constraint failed on the fields: (sessionId)" >>
NoError == << >>

FallbackReply == << Run(FallbackText, 1) >>

Includes(msg, frag) == \E i \in 1..Len(msg) : msg[i] = frag

(***************************************************************************)
(* Inputs.                                                                 *)
(***************************************************************************)
ShortText == << Run("a", 2) >>
PaddedMarkupText == << Run(" ", 1), Run("<", 1), Run("a", 1), Run(" ", 1) >>
BlankText == << Run(" ", 3) >>
LongBlankText == << Run(" ", MaxMessageLength + 1) >>
LimitText == << Run("a", MaxMessageLength) >>
OverLimitText == << Run("a", MaxMessageLength + 1) >>
LimitMarkupText == << Run("a", MaxMessageLength - 1), Run("<", 1) >>

DirectTexts ==
  { << >>, BlankText, LongBlankText, LimitText, OverLimitText }

StringBody(t) == [kind |-> "string", text |-> t]
HttpBodies ==
  { [kind |-> "undefined", text |-> << >>],
    [kind |-> "number", text |-> << >>] }
  \cup { StringBody(t) : t \in { << >>, BlankText, OverLimitText,
                                 PaddedMarkupText } }
NoBody == [kind |-> "undefined", text |-> << >>]

ClientIds == { ClientId(1) }

ReplyText == << Run("r", 40) >>

(* What the Gemini backend can answer to generateContent. *)
BackendOutcomes ==
  { [kind |-> "text", text |-> ReplyText, error |-> NoError],
    [kind |-> "text", text |-> << >>, error |-> NoError],
    [kind |-> "throw", text |-> << >>, error |-> << "API key", " not valid" >>],
    [kind |-> "throw", text |-> << >>, error |-> << "quota", " exceeded" >>],
    [kind |-> "throw", text |-> << >>, error |-> << "fetch failed" >>] }

(***************************************************************************)
(* State.                                                                  *)
(***************************************************************************)
VARIABLES
  conversations,  \* table "conversations", in creation order; id = index
  messages,       \* table "messages": for each conversation id, its
                  \* messages in createdAt order; createdAt = rank,
                  \* id = <<conversation id, rank>>
  mintCount,      \* number of session ids minted so far
  provider,       \* process.env.LLM_PROVIDER || 'gemini'
  middleware,     \* which of the two validation middlewares is deployed
  calls,          \* the requests made so far, in progress or answered, each
                  \* with the locals of its processMessage call; requests
                  \* have no identity of their own, so they form a bag
  widget          \* the ChatWidget of one browser tab: its React state and
                  \* the localStorage entry of the session id

vars ==
  << conversations, messages, mintCount, provider, middleware, calls, widget >>

Range(f) == { f[i] : i \in DOMAIN f }

(***************************************************************************)
(* The ChatWidget before it is mounted.  sessionId is the React state,     *)
(* stored the localStorage entry (Undefined for null); fresh and stale     *)
(* record the history of the New conversation button: fresh holds from a   *)
(* press until a reply to a message sent after it arrives, stale while a   *)
(* message sent before the press is still unanswered.                      *)
(***************************************************************************)
WelcomeText == << Run("Hi! I'm the SpurStore Support Agent.", 1) >>
WelcomeMessage == [sender |-> "ai", text |-> WelcomeText]

NoWidget ==
  [phase |-> "unmounted", messages |-> << WelcomeMessage >>,
   isLoading |-> FALSE, error |-> NoError, sessionId |-> Undefined,
   stored |-> Undefined, fresh |-> FALSE, stale |-> FALSE]

NoMessage == << 0, 0 >>
NoData == [reply |-> << >>, sessionId |-> Undefined, messageId |-> NoMessage,
           conversationId |-> 0]
NoOut == [kind |-> "none", status |-> 0, success |-> "absent",
          error |-> NoError, code |-> "", data |-> NoData]
NoLLM == [content |-> << >>, provider |-> ""]
NoPrompt == << >>

NewCall ==
  [pc |-> "new", via |-> "", body |-> NoBody, message |-> << >>,
   sessionId |-> Undefined, known |-> FALSE, conversation |-> 0,
   convSessionId |-> Undefined, created |-> FALSE,
   userMessage |-> NoMessage,
   history |-> << >>, prompt |-> NoPrompt, llmFailed |-> FALSE,
   llmResponse |-> NoLLM, aiMessage |-> NoMessage, out |-> NoOut]

(* prisma.conversation.findUnique({ where: { sessionId } }): id or 0 *)
FindUnique(sid) ==
  IF \E i \in 1..Len(conversations) : conversations[i].sessionId = sid
  THEN CHOOSE i \in 1..Len(conversations) : conversations[i].sessionId = sid
  ELSE 0

(***************************************************************************)
(* Initial states: an empty store, or a store left by completed exchanges  *)
(* of one conversation whose session id the server minted.                 *)
(***************************************************************************)
InitExchanges == { 0, HistoryLimit \div 2 }

ExchangeMessages(k) ==
  [i \in 1..(2 * k) |->
     [conversationId |-> 1,
      sender |-> IF i % 2 = 1 THEN "USER" ELSE "AI",
      text |-> IF i % 2 = 1 THEN ShortText ELSE ReplyText,
      createdAt |-> i]]

InitStore ==
  /\ \E k \in InitExchanges :
       /\ conversations =
            IF k = 0 THEN << >>
            ELSE << [sessionId |-> MintedId(1), updatedAt |-> k] >>
       /\ messages = IF k = 0 THEN << >> ELSE << ExchangeMessages(k) >>
       /\ mintCount = IF k = 0 THEN 0 ELSE 1
  /\ provider \in { "gemini", "openai" }
  /\ calls = EmptyBag

(* the service alone: no HTTP layer in front of it, no page open *)
Init == InitStore /\ middleware = "none" /\ widget = NoWidget

(* the server: one of the two validation middlewares is mounted *)
InitHttp ==
  InitStore /\ middleware \in { "part_002", "part_003" } /\ widget = NoWidget

(***************************************************************************)
(* LLMService.                                                             *)
(***************************************************************************)
ErrUnavailable == << "AI service is currently ", "unavailable",
                     ". Please try again later." >>
ErrHighDemand == << "We're experiencing high demand. Please wait a moment." >>
ErrUnable == << "Unable to generate response. Please try again." >>

LLMOk(text) == [ok |-> TRUE, content |-> text, provider |-> "gemini",
                error |-> NoError]
LLMThrow(e) == [ok |-> FALSE, content |-> << >>, provider |-> "",
                error |-> e]

(* mutant: an empty response.text is returned as content *)
GenerateWithGemini_EmptyReturned(b) ==
  IF provider # "gemini" THEN LLMThrow(<< "Gemini client not initialized" >>)
  ELSE IF b.kind = "throw" THEN LLMThrow(b.error)
  ELSE LLMOk(b.text)

(* generateWithGemini: the client exists exactly when provider = 'gemini' *)
GenerateWithGemini(b) ==
  IF provider # "gemini" THEN LLMThrow(<< "Gemini client not initialized" >>)
  ELSE IF b.kind = "throw" THEN LLMThrow(b.error)
  ELSE IF b.text = << >> THEN LLMThrow(<< "Empty response from Gemini" >>)
  ELSE LLMOk(b.text)

(* the catch block of generateReply *)
MapLLMError(e) ==
  IF Includes(e, "API key") \/ Includes(e, "authentication")
  THEN ErrUnavailable
  ELSE IF Includes(e, "rate limit") \/ Includes(e, "quota")
  THEN ErrHighDemand
  ELSE ErrUnable

(* mutant: the first n entries instead of the last *)
Slice_First(rows, n) ==
  SubSeq(rows, 1, IF Len(rows) > n THEN n ELSE Len(rows))

(* history.slice(-n) *)
Slice(rows, n) ==
  SubSeq(rows, IF Len(rows) > n THEN Len(rows) - n + 1 ELSE 1, Len(rows))

(* buildPrompt: the blocks of the prompt, in the order of the template *)
BuildPrompt(history, userMessage) ==
  << [block |-> "knowledge", lines |-> << >>, text |-> << >>] >>
  \o (IF Len(history) > 0
      THEN << [block |-> "history",
               lines |-> [k \in 1..Len(Slice(history, PromptWindow)) |->
                            [role |-> IF Slice(history, PromptWindow)[k].sender
                                         = "USER"
                                      THEN "Customer" ELSE "Support Agent",
                             text |-> Slice(history, PromptWindow)[k].text]],
               text |-> << >>] >>
      ELSE << >>)
  \o << [block |-> "question", lines |-> << >>, text |-> userMessage],
        [block |-> "instruction", lines |-> << >>, text |-> << >>] >>

(* mutant: the cut without the marker *)
TrimmedMessage_NoMarker(userMessage) ==
  IF TextLen(userMessage) > MaxPromptMessage
  THEN Substring(userMessage, MaxPromptMessage)
  ELSE userMessage

(* generateReply: "Trim if too long" *)
TrimmedMessage(userMessage) ==
  IF TextLen(userMessage) > MaxPromptMessage
  THEN Substring(userMessage, MaxPromptMessage) \o << Run("...", 1) >>
  ELSE userMessage

(* generateReply: the prompt it builds, none when its validation throws *)
PromptOf(userMessage, history) ==
  IF userMessage = << >> \/ TextLen(Trim(userMessage)) = 0 THEN NoPrompt
  ELSE BuildPrompt(history, TrimmedMessage(userMessage))

GenerateReply(userMessage, history, b) ==
  LET r == IF userMessage = << >> \/ TextLen(Trim(userMessage)) = 0
           THEN LLMThrow(ErrEmpty)
           ELSE IF provider = "gemini" THEN GenerateWithGemini(b)
           ELSE LLMThrow(<< "Unsupported provider: ", provider >>)
  IN IF r.ok THEN r ELSE LLMThrow(MapLLMError(r.error))

(***************************************************************************)
(* ChatController: how an error thrown by processMessage is answered.      *)
(***************************************************************************)
GetErrorCode(e) ==
  IF Includes(e, "cannot be empty") THEN "EMPTY_MESSAGE"
  ELSE IF Includes(e, "too long") THEN "MESSAGE_TOO_LONG"
  ELSE IF Includes(e, "invalid content") THEN "INVALID_CONTENT"
  ELSE IF Includes(e, "unavailable") THEN "SERVICE_UNAVAILABLE"
  ELSE IF Includes(e, "Rate limit") THEN "RATE_LIMITED"
  ELSE IF Includes(e, "Authentication") THEN "AUTH_ERROR"
  ELSE "INTERNAL_ERROR"

SendMessageCatch(e) ==
  [kind |-> "response",
   status |-> IF \/ Includes(e, "cannot be empty")
                 \/ Includes(e, "too long")
                 \/ Includes(e, "invalid content") THEN 400 ELSE 500,
   success |-> "false",
   error |-> IF e = NoError THEN << "Internal server error" >> ELSE e,
   code |-> GetErrorCode(e),
   data |-> NoData]

(* a 400 answered by the controller's own checks *)
ControllerReject(e, code) ==
  [kind |-> "response", status |-> 400, success |-> "false", error |-> e,
   code |-> code, data |-> NoData]

(* a 400 answered by the validation middleware: { error, code } *)
MiddlewareReject(e, code) ==
  [kind |-> "response", status |-> 400, success |-> "absent", error |-> e,
   code |-> code, data |-> NoData]

(* processMessage throws e: the caller sees it, or the controller maps it *)
Thrown(call, e) ==
  [call EXCEPT !.pc = "done",
               !.out = IF call.via = "http" THEN SendMessageCatch(e)
                       ELSE [NoOut EXCEPT !.kind = "throw", !.error = e]]

(* processMessage returns data *)
Returned(call, data) ==
  [call EXCEPT !.pc = "done",
               !.out = IF call.via = "http"
                       THEN [NoOut EXCEPT !.kind = "response", !.status = 200,
                                          !.success = "true", !.data = data]
                       ELSE [NoOut EXCEPT !.kind = "return", !.data = data]]

(* <<sessionId, conversationId>> of the replies given so far: a           *)
(* conversation is touched exactly when a call on it returns               *)
ReturnedSessions ==
  { << conversations[i].sessionId, i >> :
      i \in { j \in 1..Len(conversations) : conversations[j].updatedAt > 0 } }

(* callers send no sessionId, an empty one, one of their own making, or    *)
(* one that a reply gave them                                              *)
SessionInputs ==
  { Undefined, EmptyString } \cup ClientIds
  \cup { r[1] : r \in ReturnedSessions }

Requests == BagToSet(calls)
Replace(old, new) == (calls (-) SetToBag({old})) (+) SetToBag({new})

(***************************************************************************)
(* Store operations.                                                       *)
(***************************************************************************)
(* mutant: the unique index is missing *)
UniqueViolation_Unenforced(sid) == FALSE

(* the unique index conversations_sessionId_key *)
UniqueViolation(sid) == FindUnique(sid) # 0

(* updatedAt is modelled by the number of times it has been set *)
NewConversation(sid) == [sessionId |-> sid, updatedAt |-> 0]

NewMessage(conv, sender, text) ==
  [conversationId |-> conv, sender |-> sender, text |-> text,
   createdAt |-> Len(messages[conv]) + 1]

(* mutant: the new row is put before the existing ones *)
InsertMessage_First(m) ==
  [messages EXCEPT ![m.conversationId] = << m >> \o @]

(* prisma.message.create: the table after the insert *)
InsertMessage(m) ==
  [messages EXCEPT ![m.conversationId] = Append(@, m)]

(* mutant: the where clause is lost, the rows of every conversation *)
RECURSIVE AllMessages(_)
AllMessages(n) == IF n = 0 THEN << >> ELSE AllMessages(n - 1) \o messages[n]
MessagesOf_Unfiltered(conv) == AllMessages(Len(messages))

(* where: { conversationId }, orderBy: { createdAt: 'asc' } *)
MessagesOf(conv) == messages[conv]

(* take: n *)
Take(rows, n) == SubSeq(rows, 1, IF Len(rows) < n THEN Len(rows) ELSE n)

(* mutant: findMany without take *)
GetConversationHistory_Unlimited(conv) ==
  [k \in 1..Len(MessagesOf(conv)) |->
     [sender |-> MessagesOf(conv)[k].sender,
      text |-> MessagesOf(conv)[k].text,
      createdAt |-> MessagesOf(conv)[k].createdAt]]

(* getConversationHistory *)
GetConversationHistory(conv) ==
  LET found == Take(MessagesOf(conv), HistoryLimit)
  IN [k \in 1..Len(found) |->
        [sender |-> found[k].sender, text |-> found[k].text,
         createdAt |-> found[k].createdAt]]

(* mutant: the emptiness test without trim() *)
ValidateMessage_NoTrim(message) ==
  IF message = << >> THEN ErrEmpty
  ELSE IF TextLen(message) > MaxMessageLength THEN ErrTooLong
  ELSE NoError

(* mutant: >= instead of > in the length test *)
ValidateMessage_OffByOne(message) ==
  IF message = << >> \/ TextLen(Trim(message)) = 0 THEN ErrEmpty
  ELSE IF TextLen(message) >= MaxMessageLength THEN ErrTooLong
  ELSE NoError

(***************************************************************************)
(* ChatService.validateMessage: the error thrown, or NoError.              *)
(***************************************************************************)
ValidateMessage(message) ==
  IF message = << >> \/ TextLen(Trim(message)) = 0 THEN ErrEmpty
  ELSE IF TextLen(message) > MaxMessageLength THEN ErrTooLong
  ELSE NoError

(***************************************************************************)
(* Requests.                                                               *)
(***************************************************************************)
(* mutant: the angle brackets are left as they are *)
Sanitize_Unescaped(trimmed) ==
  IF middleware = "part_003"
  THEN Substring(trimmed, MaxMessageLength)
  ELSE trimmed

(* what the middleware stores in req.body.message *)
Sanitize(trimmed) ==
  IF middleware = "part_003"
  THEN Substring(EscapeAngles(trimmed), MaxMessageLength)
  ELSE EscapeAngles(trimmed)

(* validateMessage of validation.middleware: the 400 it answers, or NoOut  *)
(* when it calls next()                                                    *)
ValidateMessageMiddleware(body) ==
  IF body.kind # "string" \/ body.text = << >>
  THEN MiddlewareReject(<< "Message is required and must be a string" >>,
                        "VALIDATION_ERROR")
  ELSE IF TextLen(Trim(body.text)) = 0
  THEN MiddlewareReject(<< "Message ", "cannot be empty",
                           " or whitespace only" >>, "EMPTY_MESSAGE")
  ELSE IF TextLen(Trim(body.text)) > MaxMessageLength
  THEN MiddlewareReject(<< "Message is ", "too long",
                           ". Maximum 5000 characters allowed." >>,
                        "MESSAGE_TOO_LONG")
  ELSE NoOut

(* ChatController.sendMessage, its own checks: the 400 it answers, or      *)
(* NoOut when it goes on to call processMessage                            *)
SendMessageChecks(body) ==
  IF body.kind # "string" \/ body.text = << >>
  THEN ControllerReject(<< "Message is required and must be a string" >>,
                        "VALIDATION_ERROR")
  ELSE IF TextLen(Trim(body.text)) = 0
  THEN ControllerReject(<< "Message ", "cannot be empty" >>, "EMPTY_MESSAGE")
  ELSE NoOut

(***************************************************************************)
(* ChatService.processMessage, one action per store or LLM operation,      *)
(* each followed by the code that runs until the next one is issued.       *)
(***************************************************************************)
(* mutant: the text is not validated before the store is used *)
EnterProcessMessage_Unvalidated(call, sid) ==
  [call EXCEPT !.pc = IF Truthy(sid) THEN "findUnique" ELSE "create",
               !.sessionId = sid,
               !.known = (Truthy(sid) /\ FindUnique(sid) # 0)]

(* the start of processMessage: validateMessage, then the first store      *)
(* operation of getOrCreateConversation is issued                          *)
(* sessionId is request.sessionId as getOrCreateConversation receives it;  *)
(* known records whether a Conversation had that sessionId at that time    *)
EnterProcessMessage(call, sid) ==
  LET e == ValidateMessage(call.message)
  IN IF e # NoError THEN Thrown(call, e)
     ELSE [call EXCEPT !.pc = IF Truthy(sid) THEN "findUnique" ELSE "create",
                       !.sessionId = sid,
                       !.known = (Truthy(sid) /\ FindUnique(sid) # 0)]

(* a caller of the service invokes processMessage(request) *)
CallProcessMessage(text, sid) ==
  /\ BagCardinality(calls) < MaxCalls
  /\ calls' = calls (+) SetToBag({ EnterProcessMessage(
       [NewCall EXCEPT !.via = "direct", !.message = text], sid) })
  /\ UNCHANGED << conversations, messages, mintCount, provider,
                  middleware, widget >>

(* POST /api/chat/message or POST /api/message: the middleware, then the   *)
(* controller, then processMessage up to its first store operation         *)
Posted(body, sid) ==
  LET arrived == [NewCall EXCEPT !.via = "http", !.body = body]
      rejected == ValidateMessageMiddleware(body)
      sanitized == StringBody(Sanitize(Trim(body.text)))
      refused == SendMessageChecks(sanitized)
  IN IF rejected # NoOut
     THEN [arrived EXCEPT !.pc = "done", !.out = rejected]
     ELSE IF refused # NoOut
     THEN [arrived EXCEPT !.pc = "done", !.body = sanitized, !.out = refused]
     ELSE EnterProcessMessage(
            [arrived EXCEPT !.body = sanitized,
                            !.message = Trim(sanitized.text)], sid)

PostMessage(body, sid) ==
  /\ BagCardinality(calls) < MaxCalls
  /\ calls' = calls (+) SetToBag({ Posted(body, sid) })
  /\ UNCHANGED << conversations, messages, mintCount, provider,
                  middleware, widget >>

(* mutant: the conversation found by the lookup is not returned *)
PM_FindUnique_Dropped(call) ==
  /\ call.pc = "findUnique"
  /\ calls' = Replace(call, [call EXCEPT !.pc = "create"])
  /\ UNCHANGED << conversations, messages, mintCount, provider,
                  middleware, widget >>

(* getOrCreateConversation: prisma.conversation.findUnique *)
PM_FindUnique(call) ==
  LET found == FindUnique(call.sessionId)
  IN /\ call.pc = "findUnique"
     /\ calls' = Replace(call,
          IF found # 0
          THEN [call EXCEPT !.pc = "saveUser", !.conversation = found,
                  !.convSessionId = conversations[found].sessionId]
          ELSE [call EXCEPT !.pc = "create"])
     /\ UNCHANGED << conversations, messages, mintCount, provider,
                     middleware, widget >>

(* mutant: a session id is minted whatever the caller supplied *)
NewSessionId_AlwaysMinted(sid) == MintedId(mintCount + 1)

(* const newSessionId = sessionId || "session_<time>_<random>" *)
NewSessionId(sid) == IF Truthy(sid) THEN sid ELSE MintedId(mintCount + 1)

(* mutant: a rejected create falls back to the Conversation that exists *)
PM_CreateConversation_Redirected(call) ==
  LET newSessionId == NewSessionId(call.sessionId)
  IN /\ call.pc = "create"
     /\ mintCount' = IF Truthy(call.sessionId) THEN mintCount
                     ELSE mintCount + 1
     /\ IF UniqueViolation(newSessionId)
        THEN /\ calls' = Replace(call,
                  [call EXCEPT !.pc = "saveUser",
                               !.conversation = FindUnique(newSessionId),
                               !.convSessionId = newSessionId])
             /\ UNCHANGED << conversations, messages >>
        ELSE /\ conversations' =
                  Append(conversations, NewConversation(newSessionId))
             /\ messages' = Append(messages, << >>)
             /\ calls' = Replace(call,
                  [call EXCEPT !.pc = "saveUser", !.created = TRUE,
                               !.conversation = Len(conversations'),
                               !.convSessionId = newSessionId])
     /\ UNCHANGED << provider, middleware, widget >>

(* getOrCreateConversation: prisma.conversation.create *)
PM_CreateConversation(call) ==
  LET newSessionId == NewSessionId(call.sessionId)
  IN /\ call.pc = "create"
     /\ mintCount' = IF Truthy(call.sessionId) THEN mintCount
                     ELSE mintCount + 1
     /\ IF UniqueViolation(newSessionId)
        THEN /\ calls' = Replace(call, Thrown(call, ErrUnique))
             /\ UNCHANGED << conversations, messages >>
        ELSE /\ conversations' =
                  Append(conversations, NewConversation(newSessionId))
             /\ messages' = Append(messages, << >>)
             /\ calls' = Replace(call,
                  [call EXCEPT !.pc = "saveUser", !.created = TRUE,
                               !.conversation = Len(conversations'),
                               !.convSessionId = newSessionId])
     /\ UNCHANGED << provider, middleware, widget >>

(* mutant: the user Message is not persisted before the history is read *)
PM_SaveUserMessage_Skipped(call) ==
  /\ call.pc = "saveUser"
  /\ calls' = Replace(call, [call EXCEPT !.pc = "history"])
  /\ UNCHANGED << conversations, messages, mintCount, provider,
                  middleware, widget >>

(* prisma.message.create, sender USER *)
PM_SaveUserMessage(call) ==
  /\ call.pc = "saveUser"
  /\ messages' = InsertMessage(
       NewMessage(call.conversation, "USER", call.message))
  /\ calls' = Replace(call,
       [call EXCEPT !.pc = "history",
          !.userMessage = << call.conversation,
                             Len(messages'[call.conversation]) >>])
  /\ UNCHANGED << conversations, mintCount, provider, middleware, widget >>

(* getConversationHistory: prisma.message.findMany *)
PM_GetHistory(call) ==
  /\ call.pc = "history"
  /\ calls' = Replace(call,
       [call EXCEPT !.pc = "llm",
                    !.history = GetConversationHistory(call.conversation)])
  /\ UNCHANGED << conversations, messages, mintCount, provider,
                  middleware, widget >>

(* mutant: no inner try/catch, the error of generateReply propagates *)
PM_GenerateReply_Rethrow(call) ==
  /\ call.pc = "llm"
  /\ \E b \in BackendOutcomes :
       LET r == GenerateReply(call.message, call.history, b)
       IN calls' = Replace(call,
            IF r.ok
            THEN [call EXCEPT !.pc = "saveAI",
                    !.prompt = PromptOf(call.message, call.history),
                    !.llmResponse = [content |-> r.content,
                                     provider |-> r.provider]]
            ELSE Thrown([call EXCEPT !.llmFailed = TRUE], r.error))
  /\ UNCHANGED << conversations, messages, mintCount, provider,
                  middleware, widget >>

(* llmService.generateReply and the fallback of processMessage *)
PM_GenerateReply(call) ==
  /\ call.pc = "llm"
  /\ \E b \in BackendOutcomes :
       LET r == GenerateReply(call.message, call.history, b)
       IN calls' = Replace(call,
            [call EXCEPT !.pc = "saveAI",
               !.prompt = PromptOf(call.message, call.history),
               !.llmFailed = ~r.ok,
               !.llmResponse =
                  IF r.ok THEN [content |-> r.content,
                                provider |-> r.provider]
                  ELSE [content |-> FallbackReply,
                        provider |-> "fallback"]])
  /\ UNCHANGED << conversations, messages, mintCount, provider,
                  middleware, widget >>

(* mutant: the AI Message is written twice *)
PM_SaveAIMessage_Twice(call) ==
  /\ call.pc = "saveAI"
  /\ messages' = [messages EXCEPT ![call.conversation] =
       @ \o << NewMessage(call.conversation, "AI", call.llmResponse.content),
               [NewMessage(call.conversation, "AI", call.llmResponse.content)
                  EXCEPT !.createdAt = @ + 1] >>]
  /\ calls' = Replace(call,
       [call EXCEPT !.pc = "update",
          !.aiMessage = << call.conversation,
                           Len(messages'[call.conversation]) >>])
  /\ UNCHANGED << conversations, mintCount, provider, middleware, widget >>

(* prisma.message.create, sender AI *)
PM_SaveAIMessage(call) ==
  /\ call.pc = "saveAI"
  /\ messages' = InsertMessage(
       NewMessage(call.conversation, "AI", call.llmResponse.content))
  /\ calls' = Replace(call,
       [call EXCEPT !.pc = "update",
          !.aiMessage = << call.conversation,
                           Len(messages'[call.conversation]) >>])
  /\ UNCHANGED << conversations, mintCount, provider, middleware, widget >>

(* mutant: the sessionId of the request is returned *)
PM_UpdateConversation_EchoesRequest(call) ==
  LET data == [reply |-> call.llmResponse.content,
               sessionId |-> call.sessionId,
               messageId |-> call.aiMessage,
               conversationId |-> call.conversation]
  IN /\ call.pc = "update"
     /\ conversations' = [conversations EXCEPT
          ![call.conversation].updatedAt = @ + 1]
     /\ calls' = Replace(call, Returned(call, data))
     /\ UNCHANGED << messages, mintCount, provider, middleware, widget >>

(* prisma.conversation.update of updatedAt, then the return *)
PM_UpdateConversation(call) ==
  LET data == [reply |-> call.llmResponse.content,
               sessionId |-> call.convSessionId,
               messageId |-> call.aiMessage,
               conversationId |-> call.conversation]
  IN /\ call.pc = "update"
     /\ conversations' = [conversations EXCEPT
          ![call.conversation].updatedAt = @ + 1]
     /\ calls' = Replace(call, Returned(call, data))
     /\ UNCHANGED << messages, mintCount, provider, middleware, widget >>

(* the steps of a request in progress *)
Step ==
  \/ \E call \in Requests : PM_FindUnique(call)
  \/ \E call \in Requests : PM_CreateConversation(call)
  \/ \E call \in Requests : PM_SaveUserMessage(call)
  \/ \E call \in Requests : PM_GetHistory(call)
  \/ \E call \in Requests : PM_GenerateReply(call)
  \/ \E call \in Requests : PM_SaveAIMessage(call)
  \/ \E call \in Requests : PM_UpdateConversation(call)

(* callers of ChatService.processMessage *)
Next ==
  \/ \E t \in DirectTexts, s \in SessionInputs : CallProcessMessage(t, s)
  \/ Step

Spec == Init /\ [][Next]_vars

(* clients of the POST endpoints *)
NextHttp ==
  \/ \E b \in HttpBodies, s \in SessionInputs : PostMessage(b, s)
  \/ Step

SpecHttp == InitHttp /\ [][NextHttp]_vars

(***************************************************************************)
(* The GET endpoints.  A GET request is answered in one step (its handler  *)
(* issues a single store operation); the request and its answer are kept   *)
(* among the requests, the environment it met in its body.                 *)
(***************************************************************************)
NoConversation ==
  [id |-> 0, sessionId |-> Undefined, updatedAt |-> 0, messages |-> << >>]

(* what the request met: is the store reachable, is the LLM backend *)
Environment(storeUp, llmUp) ==
  [kind |-> "environment", store |-> storeUp, llm |-> llmUp]

(* the error of a store operation that could not be carried out *)
ErrStore == << "Can't reach database server" >>

(* mutant: the lookup finds nothing *)
ServiceGetConversation_Null(sid) == NoConversation

(* ChatService.getConversation: findUnique with include messages *)
ServiceGetConversation(sid) ==
  LET found == FindUnique(sid)
  IN IF found = 0 THEN NoConversation
     ELSE [id |-> found,
           sessionId |-> conversations[found].sessionId,
           updatedAt |-> conversations[found].updatedAt,
           messages |-> MessagesOf(found)]

(* ChatController.getConversation: the response *)
GetConversationResponse(sid, storeUp) ==
  IF ~Truthy(sid)
  THEN ControllerReject(<< "sessionId is required" >>, "VALIDATION_ERROR")
  ELSE IF ~storeUp
  THEN [kind |-> "response", status |-> 500, success |-> "false",
        error |-> << "Internal server error" >>, code |-> "INTERNAL_ERROR",
        data |-> NoData]
  ELSE IF ServiceGetConversation(sid) = NoConversation
  THEN [kind |-> "response", status |-> 404, success |-> "false",
        error |-> << "Conversation not found" >>, code |-> "NOT_FOUND",
        data |-> NoData]
  ELSE [kind |-> "response", status |-> 200, success |-> "true",
        error |-> NoError, code |-> "",
        data |-> ServiceGetConversation(sid)]

(* GET /api/conversation/:sessionId *)
GetConversation(sid, storeUp) ==
  /\ BagCardinality(calls) < MaxCalls
  /\ calls' = calls (+) SetToBag({
       [NewCall EXCEPT !.pc = "done", !.via = "get", !.sessionId = sid,
                       !.body = Environment(storeUp, TRUE),
                       !.out = GetConversationResponse(sid, storeUp)] })
  /\ UNCHANGED << conversations, messages, mintCount, provider,
                  middleware, widget >>

(* ChatService.getHealth *)
GetHealth(storeUp) ==
  IF storeUp THEN [database |-> "healthy", llm |-> "healthy"]
  ELSE [database |-> "unhealthy", llm |-> "unknown"]

(* ChatController.healthCheck: the response *)
HealthCheckResponse(storeUp) ==
  LET health == GetHealth(storeUp)
      isHealthy == health.database = "healthy" /\ health.llm = "healthy"
  IN [kind |-> "response",
      status |-> IF isHealthy THEN 200 ELSE 503,
      success |-> "absent", error |-> NoError, code |-> "",
      data |-> [status |-> IF isHealthy THEN "healthy" ELSE "unhealthy",
                database |-> health.database, llm |-> health.llm]]

(* GET /api/health *)
HealthCheck(storeUp, llmUp) ==
  /\ BagCardinality(calls) < MaxCalls
  /\ calls' = calls (+) SetToBag({
       [NewCall EXCEPT !.pc = "done", !.via = "health",
                       !.body = Environment(storeUp, llmUp),
                       !.out = HealthCheckResponse(storeUp)] })
  /\ UNCHANGED << conversations, messages, mintCount, provider,
                  middleware, widget >>

(* the session ids a client can put in the path *)
PathSessions == ClientIds \cup { c.sessionId : c \in Range(conversations) }

(* the three operations of the core logic on a store that answers: callers *)
(* sending valid texts, readers of the conversations, health checks      *)
NextGet ==
  \/ \E s \in SessionInputs : CallProcessMessage(LimitText, s)
  \/ Step
  \/ \E s \in PathSessions : GetConversation(s, TRUE)
  \/ HealthCheck(TRUE, TRUE)

SpecGet == Init /\ [][NextGet]_vars

(***************************************************************************)
(* One caller who awaits each reply before the next call, with texts on    *)
(* both sides of the cut that generateReply applies.                       *)
(***************************************************************************)
PromptLimitText == << Run("a", MaxPromptMessage) >>
OverPromptLimitText == << Run("a", MaxPromptMessage + 1) >>
PromptTexts == { ShortText, PromptLimitText, OverPromptLimitText, LimitText }

NextSerial ==
  \/ /\ \A call \in Requests : call.pc = "done"
     /\ \E t \in PromptTexts,
           s \in { Undefined } \cup { r[1] : r \in ReturnedSessions } :
          CallProcessMessage(t, s)
  \/ Step

SpecSerial == Init /\ [][NextSerial]_vars

(***************************************************************************)
(* Store faults: the store operation a call is waiting for is rejected     *)
(* (the database cannot be reached); processMessage rethrows the error.    *)
(***************************************************************************)
StoreSteps == { "findUnique", "create", "saveUser", "history", "saveAI",
                "update" }

(* mutant: the rejected operation is noted and issued again *)
PM_StoreFails_Retried(call) ==
  /\ call.pc \in StoreSteps
  /\ calls' = Replace(call, [call EXCEPT !.out.error = ErrStore])
  /\ UNCHANGED << conversations, messages, mintCount, provider,
                  middleware, widget >>

PM_StoreFails(call) ==
  /\ call.pc \in StoreSteps
  /\ calls' = Replace(call, Thrown(call, ErrStore))
  /\ UNCHANGED << conversations, messages, mintCount, provider,
                  middleware, widget >>

(* the server in front of a store that can fail *)
NextFault ==
  \/ \E b \in HttpBodies, s \in SessionInputs : PostMessage(b, s)
  \/ Step
  \/ \E call \in Requests : PM_StoreFails(call)
  \/ \E s \in PathSessions, up \in BOOLEAN : GetConversation(s, up)
  \/ \E up \in BOOLEAN, llm \in BOOLEAN : HealthCheck(up, llm)

SpecFault == InitHttp /\ [][NextFault]_vars

(***************************************************************************)
(* The frontend: chat-api and the ChatWidget of one browser tab, in front  *)
(* of the server.  A fetch reaches the server at once; its answer is       *)
(* handled by the widget in a later step.                                  *)
(***************************************************************************)
FrontendMaxLength == 4000

(* chat-api validateMessage: valid or not *)
FrontendValid(message) ==
  /\ TextLen(Trim(message)) > 0
  /\ TextLen(Trim(message)) <= FrontendMaxLength

(* the routes of the router mounted on /api; a segment that starts with    *)
(* a colon is a parameter                                                  *)
Routes ==
  { [method |-> "GET", path |-> << "health" >>, handler |-> "healthCheck"],
    [method |-> "GET", path |-> << "conversation", ":sessionId" >>,
     handler |-> "getConversation"],
    [method |-> "POST", path |-> << "chat", "message" >>,
     handler |-> "sendMessage"],
    [method |-> "POST", path |-> << "message" >>, handler |-> "sendMessage"] }

(* does a route match the request; "*" stands for the session id that the  *)
(* request carries in its path                                             *)
RouteMatches(route, method, path) ==
  /\ route.method = method
  /\ Len(route.path) = Len(path)
  /\ \A k \in 1..Len(path) :
       route.path[k] = ":sessionId" \/ route.path[k] = path[k]

(* the handler that answers the request, notFoundMiddleware when no route  *)
(* matches                                                                 *)
HandlerOf(method, path) ==
  IF \E route \in Routes : RouteMatches(route, method, path)
  THEN (CHOOSE route \in Routes : RouteMatches(route, method, path)).handler
  ELSE "notFound"

NotFoundResponse ==
  [kind |-> "response", status |-> 404, success |-> "false",
   error |-> << "Route not found" >>, code |-> "NOT_FOUND", data |-> NoData]

(* chat-api getConversationHistory: the path it fetches under the base URL *)
HistoryPath == << "chat", "history", "*" >>

(* the answer of the server to the history request *)
HistoryResponse(sid) ==
  IF HandlerOf("GET", HistoryPath) = "getConversation"
  THEN GetConversationResponse(sid, TRUE)
  ELSE NotFoundResponse

(* chat-api getConversationHistory: history.data.messages *)
HistoryMessages(sid) ==
  IF HistoryResponse(sid).status # 200 THEN << >>
  ELSE HistoryResponse(sid).data.messages

(* initSession: loadedMessages *)
LoadedMessages(rows) ==
  [k \in 1..Len(rows) |-> [sender |-> rows[k].sender, text |-> rows[k].text]]

(* the page is opened with or without a session id in localStorage *)
InitWidget ==
  /\ InitStore
  /\ middleware \in { "part_002", "part_003" }
  /\ widget \in { [NoWidget EXCEPT !.stored = s] :
                    s \in { Undefined, MintedId(1) } }

(* useEffect initSession, up to the await of getConversationHistory *)
WidgetMount ==
  /\ widget.phase = "unmounted"
  /\ widget' = IF Truthy(widget.stored)
               THEN [widget EXCEPT !.phase = "init",
                                   !.sessionId = widget.stored]
               ELSE [widget EXCEPT !.phase = "ready"]
  /\ UNCHANGED << conversations, messages, mintCount, provider, middleware,
                  calls >>

(* initSession after the await: the history request is answered *)
WidgetHistoryAnswered ==
  /\ widget.phase = "init"
  /\ widget' =
       [widget EXCEPT
          !.phase = "ready",
          !.messages =
             IF Len(HistoryMessages(widget.sessionId)) > 0
             THEN << WelcomeMessage >>
                  \o LoadedMessages(HistoryMessages(widget.sessionId))
             ELSE @]
  /\ UNCHANGED << conversations, messages, mintCount, provider, middleware,
                  calls >>

(* mutant: the input is not disabled while a request is in flight *)
WidgetSubmit_NotDisabled(text) ==
  /\ widget.phase = "ready"
  /\ FrontendValid(text)
  /\ BagCardinality(calls) < MaxCalls
  /\ widget' = [widget EXCEPT
       !.error = NoError,
       !.messages = Append(@, [sender |-> "user", text |-> Trim(text)]),
       !.isLoading = TRUE]
  /\ calls' = calls (+) SetToBag({
       Posted(StringBody(Trim(text)),
              IF Truthy(widget.sessionId) THEN widget.sessionId
              ELSE Undefined) })
  /\ UNCHANGED << conversations, messages, mintCount, provider, middleware >>

(* ChatInput.handleSubmit, handleSendMessage and chat-api sendMessage up   *)
(* to the await of fetch                                                   *)
WidgetSubmit(text) ==
  /\ widget.phase = "ready"
  /\ ~widget.isLoading
  /\ FrontendValid(text)
  /\ BagCardinality(calls) < MaxCalls
  /\ widget' = [widget EXCEPT
       !.error = NoError,
       !.messages = Append(@, [sender |-> "user", text |-> Trim(text)]),
       !.isLoading = TRUE]
  /\ calls' = calls (+) SetToBag({
       Posted(StringBody(Trim(text)),
              IF Truthy(widget.sessionId) THEN widget.sessionId
              ELSE Undefined) })
  /\ UNCHANGED << conversations, messages, mintCount, provider, middleware >>

(* handleSendMessage after the await: the answer of the server is handled  *)
WidgetReceive(call) ==
  LET success == call.out.status = 200 /\ call.out.success = "true"
      sid == call.out.data.sessionId
  IN /\ call.via = "http"
     /\ call.pc = "done"
     /\ calls' = Replace(call, [call EXCEPT !.pc = "closed"])
     /\ widget' =
          IF success
          THEN [widget EXCEPT
                  !.sessionId = IF Truthy(sid) THEN sid ELSE @,
                  !.stored = IF Truthy(sid) THEN sid ELSE @,
                  !.messages =
                     Append(@, [sender |-> "ai",
                                text |-> call.out.data.reply]),
                  !.isLoading = FALSE,
                  !.fresh = IF widget.stale THEN @ ELSE FALSE,
                  !.stale = FALSE]
          ELSE [widget EXCEPT !.error = call.out.error,
                              !.isLoading = FALSE,
                              !.stale = FALSE]
     /\ UNCHANGED << conversations, messages, mintCount, provider,
                     middleware >>

(* handleNewConversation *)
WidgetNewConversation ==
  /\ widget.phase = "ready"
  /\ widget' = [widget EXCEPT !.stored = Undefined,
                              !.sessionId = Undefined,
                              !.messages = << WelcomeMessage >>,
                              !.error = NoError,
                              !.fresh = TRUE,
                              !.stale = widget.isLoading]
  /\ UNCHANGED << conversations, messages, mintCount, provider, middleware,
                  calls >>

(* what the user types: a short text, blanks, a text over the limit of     *)
(* the frontend                                                            *)
WidgetTexts == { ShortText, BlankText, LimitText }

NextWidget ==
  \/ WidgetMount
  \/ WidgetHistoryAnswered
  \/ \E t \in WidgetTexts : WidgetSubmit(t)
  \/ Step
  \/ \E call \in Requests : PM_StoreFails(call)
  \/ \E call \in Requests : WidgetReceive(call)
  \/ WidgetNewConversation

SpecWidget == InitWidget /\ [][NextWidget]_vars

(***************************************************************************)
(* Callers of LLMService.generateReply itself: they pass a text and a      *)
(* history of their own making, and the backend gives one answer to the    *)
(* one invocation.  The call is answered in one step; the answer of the    *)
(* backend is kept in its body, the error it throws in its outcome.        *)
(***************************************************************************)
MaxHistory == 6

(* the k-th entry of a supplied history whose first sender is first *)
HistoryEntry(first, k) ==
  [sender |-> IF k % 2 = 1 THEN first
              ELSE IF first = "USER" THEN "AI" ELSE "USER",
   text |-> << Run("h", k) >>,
   createdAt |-> k]

SuppliedHistories ==
  { [k \in 1..n |-> HistoryEntry(first, k)] :
      n \in 0..MaxHistory, first \in { "USER", "AI" } }

EmptyResponse == [kind |-> "text", text |-> << >>, error |-> NoError]

BackendAnswer(b) == [kind |-> "backend", answer |-> b]

(* await llmService.generateReply(userMessage, history) *)
CallGenerateReply(userMessage, history, b) ==
  LET r == GenerateReply(userMessage, history, b)
  IN /\ BagCardinality(calls) < MaxCalls
     /\ calls' = calls (+) SetToBag({
          [NewCall EXCEPT
             !.pc = "done", !.via = "generateReply",
             !.body = BackendAnswer(b),
             !.message = userMessage, !.history = history,
             !.prompt = PromptOf(userMessage, history),
             !.llmFailed = ~r.ok,
             !.llmResponse = [content |-> r.content, provider |-> r.provider],
             !.out = IF r.ok THEN [NoOut EXCEPT !.kind = "return"]
                     ELSE [NoOut EXCEPT !.kind = "throw",
                                        !.error = r.error]] })
     /\ UNCHANGED << conversations, messages, mintCount, provider,
                     middleware, widget >>

(* callers of generateReply next to one caller of processMessage who      *)
(* awaits each reply                                                       *)
NextLLM ==
  \/ \E h \in SuppliedHistories, b \in BackendOutcomes :
       CallGenerateReply(ShortText, h, b)
  \/ /\ \A call \in Requests : call.pc = "done"
     /\ \E s \in { Undefined } \cup { r[1] : r \in ReturnedSessions } :
          CallProcessMessage(ShortText, s)
  \/ Step

SpecLLM == Init /\ [][NextLLM]_vars

(***************************************************************************)
(* Callers of processMessage in front of a store that can fail: any store  *)
(* operation a call is waiting for may be rejected.  A process that dies   *)
(* between two steps leaves its calls where they are; every reachable      *)
(* state is such a state.                                                  *)
(***************************************************************************)
(* an empty store, the supported provider configured *)
InitCrash == Init /\ provider = "gemini" /\ conversations = << >>

NextCrash ==
  \/ \E s \in ClientIds : CallProcessMessage(ShortText, s)
  \/ Step
  \/ \E call \in Requests : PM_StoreFails(call)

SpecCrash == InitCrash /\ [][NextCrash]_vars

(***************************************************************************)
(* One client of the POST endpoints who awaits each response, with texts   *)
(* whose angle brackets the middleware replaces: a short one, and one of   *)
(* 5000 characters that the replacement makes longer than the limit.       *)
(***************************************************************************)
MarkupBodies ==
  { StringBody(t) :
      t \in { PaddedMarkupText, LimitMarkupText, OverLimitText, BlankText } }

NextSanitize ==
  \/ /\ \A call \in Requests : call.pc = "done"
     /\ \E b \in MarkupBodies,
           s \in { Undefined } \cup { r[1] : r \in ReturnedSessions } :
          PostMessage(b, s)
  \/ Step

SpecSanitize == InitHttp /\ [][NextSanitize]_vars

(***************************************************************************)
(* Vocabulary of the properties.                                           *)
(***************************************************************************)
Done(call) == call.pc = "done"
Succeeded(call) == Done(call) /\ call.out.kind \in {"return"} \cup
                     (IF call.out.status = 200 THEN {"response"} ELSE {})
Blank(t) == TextLen(Trim(t)) = 0
StoredMessage(id) == messages[id[1]][id[2]]
Resolved(call) == call.conversation # 0
(* the record that the step just taken added to the requests *)
Fresh(call) == CopiesIn(call, calls') > CopiesIn(call, calls)
(* the record that the step just taken replaced *)
Stale(call) == CopiesIn(call, calls) > CopiesIn(call, calls')
(* the number of requests among those of S, copies counted *)
RECURSIVE Copies(_)
Copies(S) ==
  IF S = {} THEN 0
  ELSE LET r == CHOOSE x \in S : TRUE
       IN CopiesIn(r, calls) + Copies(S \ {r})

(***************************************************************************)
(* C1.  For every text that is non-empty after trimming and at most 5000   *)
(* characters, processMessage returns a reply, and afterwards the          *)
(* conversation named by the returned conversationId holds a USER Message  *)
(* carrying that text followed later by an AI Message carrying the reply.  *)
(***************************************************************************)
C1_ValidTextGetsReply ==
  \A call \in Requests :
    (/\ Done(call)
     /\ call.via = "direct"
     /\ ~Blank(call.message)
     /\ TextLen(call.message) <= 5000)
    => /\ call.out.kind = "return"
       /\ LET d == call.out.data
              stored == messages[d.conversationId]
          IN \E i, j \in 1..Len(stored) :
               /\ i < j
               /\ stored[i].sender = "USER"
               /\ stored[i].text = call.message
               /\ stored[j].sender = "AI"
               /\ stored[j].text = d.reply

(***************************************************************************)
(* C2.  Whenever the LLM call of a processMessage call fails, the call     *)
(* still succeeds: it never ends in an error, the reply it returns is the  *)
(* fixed fallback string, the fallback is persisted as its AI Message,     *)
(* and the conversation advances by exactly two Messages per call (every   *)
(* conversation holds two Messages for each completed call, plus the       *)
(* Messages written so far by the calls in progress on it).                *)
(***************************************************************************)
WrittenOnce(v) ==
  Copies({ call \in Requests : /\ call.conversation = v
                               /\ call.pc \in {"history", "llm", "saveAI"} })
WrittenTwice(v) ==
  Copies({ call \in Requests : call.conversation = v /\ call.pc = "update" })

C2_FallbackOnLLMFailure ==
  /\ \A call \in Requests :
       call.llmFailed =>
         /\ call.pc \in {"saveAI", "update", "done"}
         /\ call.llmResponse.content = FallbackReply
         /\ call.pc \in {"update", "done"} =>
              /\ call.aiMessage[1] = call.conversation
              /\ StoredMessage(call.aiMessage).sender = "AI"
              /\ StoredMessage(call.aiMessage).text = FallbackReply
         /\ Done(call) =>
              /\ Succeeded(call)
              /\ call.out.error = NoError
              /\ call.out.data.reply = FallbackReply
              /\ call.out.data.messageId = call.aiMessage
  /\ \A v \in 1..Len(conversations) :
       Len(messages[v]) = 2 * conversations[v].updatedAt
                          + WrittenOnce(v) + 2 * WrittenTwice(v)

C2_Witness ==
  \E call \in Requests :
    /\ call.llmFailed
    /\ Succeeded(call)
    /\ call.out.data.reply = FallbackReply

(***************************************************************************)
(* C3.  A processMessage call whose sessionId matches an existing          *)
(* Conversation reuses that Conversation and creates none; calls made      *)
(* with a sessionId that an earlier call returned return the               *)
(* conversationId and the sessionId of that earlier call.                  *)
(***************************************************************************)
C3_KnownSessionReused ==
  \A call \in Requests :
    /\ call.known =>
         /\ ~call.created
         /\ call.pc # "create"
         /\ Resolved(call) =>
              /\ call.conversation = FindUnique(call.sessionId)
              /\ call.convSessionId = call.sessionId
    /\ Succeeded(call) =>
         \A r \in ReturnedSessions :
           r[1] = call.sessionId =>
             /\ call.out.data.conversationId = r[2]
             /\ call.out.data.sessionId = r[1]

C3_Witness ==
  \E call \in Requests :
    /\ call.known
    /\ Succeeded(call)
    /\ Len(conversations) = 1
    /\ conversations[1].updatedAt >= 2

(***************************************************************************)
(* C4, as claimed.  A processMessage call made with no sessionId or with   *)
(* a sessionId that matches no Conversation creates a Conversation whose   *)
(* sessionId is minted by the system, not the value the caller supplied,   *)
(* and returns that minted sessionId.                                      *)
(***************************************************************************)
C4_UnknownSessionGetsMintedId ==
  \A call \in Requests :
    (Succeeded(call) /\ ~call.known) =>
      /\ call.created
      /\ call.out.data.sessionId[1] = "session"
      /\ call.out.data.sessionId # call.sessionId

(***************************************************************************)
(* C4, amended.  A call made with no sessionId creates a Conversation      *)
(* whose sessionId is minted by the system; a call whose lookup matches    *)
(* no Conversation creates one carrying the sessionId the caller           *)
(* supplied; a call that created a Conversation returns the sessionId of   *)
(* that Conversation.                                                      *)
(***************************************************************************)
C4_NewConversationSessionId ==
  \A call \in Requests :
    /\ (~Truthy(call.sessionId) /\ (Resolved(call) \/ Succeeded(call)))
       => call.created
    /\ (~Truthy(call.sessionId) /\ Done(call)
        /\ ValidateMessage(call.message) = NoError)
       => Succeeded(call)
    /\ call.created =>
         /\ conversations[call.conversation].sessionId
              = call.convSessionId
         /\ IF Truthy(call.sessionId)
            THEN call.convSessionId = call.sessionId
            ELSE call.convSessionId[1] = "session"
         /\ Succeeded(call) =>
              /\ call.out.data.sessionId = call.convSessionId
              /\ call.out.data.conversationId = call.conversation

C4_Witness ==
  /\ \E call \in Requests :
       /\ Succeeded(call) /\ call.created
       /\ call.sessionId = ClientId(1)
  /\ \E call \in Requests :
       /\ Succeeded(call) /\ call.created
       /\ call.sessionId = Undefined

(***************************************************************************)
(* C5.  In every reachable state, under every interleaving of              *)
(* processMessage calls, no two Conversations have the same sessionId.     *)
(***************************************************************************)
C5_SessionIdUnique ==
  \A i, j \in 1..Len(conversations) :
    conversations[i].sessionId = conversations[j].sessionId => i = j

(* two calls raced to create the same sessionId; one create was rejected *)
C5_Witness ==
  /\ Len(conversations) >= 2
  /\ \E call \in Requests :
       /\ Done(call)
       /\ call.out.error = ErrUnique
       /\ FindUnique(call.sessionId) # 0

(***************************************************************************)
(* C6.  For every text that is empty or consists only of whitespace,       *)
(* processMessage fails with the error "Message cannot be empty", and the  *)
(* call persists no Message (it leaves both tables as they were).          *)
(***************************************************************************)
C6_BlankTextRejected ==
  [][\A call \in BagToSet(calls') :
       (/\ BagCardinality(calls') > BagCardinality(calls)
        /\ Fresh(call)
        /\ call.via = "direct"
        /\ Blank(call.message))
       => /\ call.pc = "done"
          /\ call.out.kind = "throw"
          /\ call.out.error = ErrEmpty
          /\ messages' = messages
          /\ conversations' = conversations]_vars

C6_Witness ==
  /\ \E call \in Requests :
       /\ Done(call) /\ call.message = BlankText
       /\ call.out.error = ErrEmpty
  /\ \E call \in Requests :
       /\ Done(call) /\ call.via = "direct" /\ call.message = << >>
       /\ call.out.error = ErrEmpty

(***************************************************************************)
(* C7, as claimed.  For every text longer than 5000 characters,            *)
(* processMessage fails with the "too long" error, which is distinct from  *)
(* the "empty message" error; a text of exactly 5000 characters is not     *)
(* rejected as too long.                                                   *)
(***************************************************************************)
C7_LongTextTooLong ==
  /\ ErrTooLong # ErrEmpty
  /\ \A call \in Requests :
       /\ (call.via = "direct" /\ Done(call)
           /\ TextLen(call.message) > 5000)
          => (call.out.kind = "throw" /\ call.out.error = ErrTooLong)
       /\ (call.via = "direct" /\ TextLen(call.message) = 5000)
          => call.out.error # ErrTooLong

(***************************************************************************)
(* C7, amended.  For every text longer than 5000 characters that is not    *)
(* whitespace-only, processMessage fails with the "too long" error, which  *)
(* is distinct from the "empty message" error; a whitespace-only text      *)
(* longer than 5000 characters fails with the "empty message" error; a     *)
(* text of exactly 5000 characters is not rejected as too long.            *)
(***************************************************************************)
C7_LongNonBlankTextTooLong ==
  /\ ErrTooLong # ErrEmpty
  /\ \A call \in Requests :
       /\ (call.via = "direct" /\ Done(call)
           /\ TextLen(call.message) > 5000)
          => /\ call.out.kind = "throw"
             /\ call.out.error =
                  IF Blank(call.message) THEN ErrEmpty ELSE ErrTooLong
       /\ (call.via = "direct" /\ TextLen(call.message) = 5000)
          => call.out.error # ErrTooLong

C7_Witness ==
  /\ \E call \in Requests :
       /\ Done(call) /\ call.message = OverLimitText
       /\ call.out.error = ErrTooLong
  /\ \E call \in Requests :
       /\ call.message = LimitText
       /\ Resolved(call)

(***************************************************************************)
(* C8.  In every processMessage call the history handed to the prompt      *)
(* builder has at most 10 entries, however many Messages the conversation  *)
(* holds.                                                                  *)
(***************************************************************************)
C8_HistoryAtMostTen ==
  \A call \in Requests : Len(call.history) <= 10

C8_Witness ==
  \E call \in Requests :
    /\ call.pc = "llm"
    /\ Len(messages[call.conversation]) > 10
    /\ Len(call.history) = 10

(***************************************************************************)
(* C9.  The history read by processMessage is the last 10 Messages of the  *)
(* conversation, or all of them when there are fewer than 10, in           *)
(* ascending creation order: the 10 newest, not the 10 oldest.             *)
(***************************************************************************)
LastRows(rows, n) ==
  SubSeq(rows, IF Len(rows) > n THEN Len(rows) - n + 1 ELSE 1, Len(rows))

C9_HistoryIsNewestTen ==
  [][\A call \in BagToSet(calls') :
       (Fresh(call) /\ call.pc = "llm")
       => LET newest == LastRows(messages[call.conversation], 10)
          IN /\ Len(call.history) = Len(newest)
             /\ \A k \in 1..Len(newest) :
                  /\ call.history[k].createdAt = newest[k].createdAt
                  /\ call.history[k].sender = newest[k].sender
                  /\ call.history[k].text = newest[k].text]_vars

(***************************************************************************)
(* C10.  Every validation failure of the POST endpoints (message missing   *)
(* or not a string, empty or whitespace-only, longer than 5000             *)
(* characters) is answered with HTTP 400 and a JSON body that contains     *)
(* success:false, an error text and a code; no such request reaches the    *)
(* store or the LLM.                                                       *)
(***************************************************************************)
InvalidBody(b) ==
  \/ b.kind # "string"
  \/ Blank(b.text)
  \/ TextLen(b.text) > 5000

C10_ValidationFailureEnvelope ==
  \A call \in Requests :
    (call.via = "http" /\ Done(call) /\ InvalidBody(call.body))
    => /\ call.out.status = 400
       /\ call.out.success = "false"
       /\ call.out.error # NoError
       /\ call.out.code # ""
       /\ ~Resolved(call)
       /\ call.llmResponse = NoLLM

(***************************************************************************)
(* C11.  GET /api/conversation/:sessionId answers 200 with the             *)
(* Conversation whose sessionId matches, together with all of its          *)
(* Messages in ascending creation order, when such a Conversation exists,  *)
(* and 404 when none has that sessionId; it changes nothing in the store.  *)
(***************************************************************************)
C11_GetConversation ==
  [][\A call \in BagToSet(calls') :
       (Fresh(call) /\ call.via = "get")
       => /\ LET found == FindUnique(call.sessionId)
             IN IF found = 0 THEN call.out.status = 404
                ELSE /\ call.out.status = 200
                     /\ call.out.data.id = found
                     /\ call.out.data.sessionId = call.sessionId
                     /\ call.out.data.messages = messages[found]
                     /\ \A i, j \in 1..Len(call.out.data.messages) :
                          i < j => call.out.data.messages[i].createdAt
                                   < call.out.data.messages[j].createdAt
          /\ conversations' = conversations
          /\ messages' = messages
          /\ mintCount' = mintCount]_vars

C11_Witness ==
  /\ \E call \in Requests :
       /\ call.via = "get" /\ call.out.status = 200
       /\ Len(call.out.data.messages) >= 2
  /\ \E call \in Requests : call.via = "get" /\ call.out.status = 404

(***************************************************************************)
(* C12.  GET /api/health answers 200 exactly when the store is reachable   *)
(* and the LLM backend is reachable, and 503 when either of them is not.   *)
(***************************************************************************)
C12_HealthReflectsBoth ==
  \A call \in Requests :
    call.via = "health" =>
      /\ call.out.status \in { 200, 503 }
      /\ call.out.status = 200 <=> (call.body.store /\ call.body.llm)

(***************************************************************************)
(* C13.  When a store operation fails during processMessage, the POST      *)
(* endpoint answers 500 with a structured envelope whose error text is a   *)
(* generic message that does not carry the store error; an LLM failure     *)
(* never produces a 500.  (A request that passed validation and was not    *)
(* answered 200 is one whose store operation failed.)                      *)
(***************************************************************************)
StoreFailed(call) ==
  /\ Done(call)
  /\ call.via = "http"
  /\ call.message # << >>
  /\ ValidateMessage(call.message) = NoError
  /\ call.out.status # 200

C13_StoreFailureGeneric500 ==
  \A call \in Requests :
    /\ StoreFailed(call) =>
         /\ call.out.status = 500
         /\ call.out.success = "false"
         /\ call.out.code # ""
         /\ call.out.error \notin { NoError, ErrStore, ErrUnique }
    /\ (call.via = "http" /\ call.llmFailed /\ Done(call)
        /\ ~StoreFailed(call))
       => call.out.status = 200

(***************************************************************************)
(* C14.  Concurrent processMessage calls do not interfere: every Message   *)
(* a call persists is stored in the conversation that call resolved, with  *)
(* the sender and text the call gave it, and every entry of the history a  *)
(* call reads is a Message of its own conversation.                        *)
(***************************************************************************)
C14_NoInterference ==
  \A call \in Requests :
    /\ call.userMessage # NoMessage =>
         /\ call.userMessage[1] = call.conversation
         /\ StoredMessage(call.userMessage).conversationId = call.conversation
         /\ StoredMessage(call.userMessage).sender = "USER"
         /\ StoredMessage(call.userMessage).text = call.message
    /\ call.aiMessage # NoMessage =>
         /\ call.aiMessage[1] = call.conversation
         /\ StoredMessage(call.aiMessage).conversationId = call.conversation
         /\ StoredMessage(call.aiMessage).sender = "AI"
         /\ StoredMessage(call.aiMessage).text = call.llmResponse.content
    /\ \A k \in 1..Len(call.history) :
         LET h == call.history[k]
             own == messages[call.conversation]
         IN /\ h.createdAt \in 1..Len(own)
            /\ own[h.createdAt].conversationId = call.conversation
            /\ own[h.createdAt].sender = h.sender
            /\ own[h.createdAt].text = h.text

(* two calls on different conversations, both between history and reply *)
C14_Witness ==
  \E c1, c2 \in Requests :
    /\ c1.conversation # 0 /\ c2.conversation # 0
    /\ c1.conversation # c2.conversation
    /\ c1.pc = "llm" /\ c2.pc \in { "llm", "saveAI" }
    /\ Len(c1.history) > 1 /\ Len(c2.history) > 0
    /\ Len(messages[c1.conversation]) > Len(c1.history)

(***************************************************************************)
(* C18.  Within every processMessage call the side effects happen in this  *)
(* order: the user Message is persisted, the history is read, the LLM is   *)
(* invoked, the AI Message is persisted, updatedAt is touched; none of     *)
(* them happens before the conversation is resolved, and the LLM is never  *)
(* invoked before the user Message is persisted.  Stated on each step of   *)
(* a call: old is the call before the step, new the call after it.         *)
(***************************************************************************)
C18_SideEffectOrder ==
  [][\A old \in BagToSet(calls), new \in BagToSet(calls') :
       (Stale(old) /\ Fresh(new)
        /\ BagCardinality(calls') = BagCardinality(calls))
       => /\ new.userMessage # old.userMessage =>
               /\ Resolved(old)
               /\ old.userMessage = NoMessage
               /\ old.history = << >>
               /\ old.llmResponse = NoLLM
               /\ old.aiMessage = NoMessage
          /\ new.history # old.history =>
               /\ Resolved(old)
               /\ old.userMessage # NoMessage
               /\ old.llmResponse = NoLLM
               /\ old.aiMessage = NoMessage
          /\ new.llmResponse # old.llmResponse =>
               /\ Resolved(old)
               /\ old.userMessage # NoMessage
               /\ old.history # << >>
               /\ old.aiMessage = NoMessage
          /\ new.aiMessage # old.aiMessage =>
               /\ Resolved(old)
               /\ old.userMessage # NoMessage
               /\ old.llmResponse # NoLLM
               /\ old.aiMessage = NoMessage
               /\ new.aiMessage[2] > old.userMessage[2]
          /\ conversations' # conversations /\ Resolved(old) =>
               /\ old.aiMessage # NoMessage
               /\ Done(new)
               /\ \A v \in 1..Len(conversations) :
                    v # old.conversation =>
                      conversations'[v] = conversations[v]]_vars

C18_Witness ==
  \E call \in Requests :
    /\ Succeeded(call)
    /\ call.history # << >>
    /\ call.aiMessage[2] > call.userMessage[2]
    /\ conversations[call.conversation].updatedAt > 0

(***************************************************************************)
(* C19.  The store is append-only: no operation (processMessage,           *)
(* getConversation, getHealth) deletes a Conversation or a Message, and    *)
(* none changes a field of an existing record other than a Conversation's  *)
(* updatedAt; the sender, text, conversationId and relative order of the   *)
(* existing Messages never change.                                         *)
(***************************************************************************)
C19_AppendOnly ==
  [][/\ Len(conversations') >= Len(conversations)
     /\ Len(messages') >= Len(messages)
     /\ \A v \in 1..Len(conversations) :
          /\ conversations'[v].sessionId = conversations[v].sessionId
          /\ conversations'[v].updatedAt >= conversations[v].updatedAt
          /\ Len(messages'[v]) >= Len(messages[v])
          /\ SubSeq(messages'[v], 1, Len(messages[v])) = messages[v]]_vars

C19_Witness ==
  /\ \E call \in Requests :
       /\ call.via = "direct" /\ Succeeded(call) /\ call.known
       /\ Len(messages[call.conversation]) > 2
  /\ \E call \in Requests : call.via \in { "get", "health" }

(***************************************************************************)
(* C20.  When the current text is longer than 2000 characters, the text    *)
(* embedded in the prompt is its first 2000 characters followed by the     *)
(* ellipsis marker; when it is 2000 characters or shorter it is embedded   *)
(* unchanged; in both cases the user Message persisted in the store keeps  *)
(* the full, untruncated text.                                             *)
(***************************************************************************)
Question(prompt) ==
  (CHOOSE k \in 1..Len(prompt) : prompt[k].block = "question")

C20_PromptTextCut ==
  \A call \in Requests :
    call.prompt # NoPrompt =>
      LET embedded == call.prompt[Question(call.prompt)].text
      IN /\ Cardinality({ k \in 1..Len(call.prompt) :
                            call.prompt[k].block = "question" }) = 1
         /\ TextLen(call.message) > 2000 =>
              /\ TextLen(embedded) = 2003
              /\ Substring(embedded, 2000) = Substring(call.message, 2000)
              /\ embedded[Len(embedded)] = Run("...", 1)
         /\ TextLen(call.message) <= 2000 => embedded = call.message
         /\ StoredMessage(call.userMessage).text = call.message
         /\ StoredMessage(call.userMessage).sender = "USER"

C20_Witness ==
  /\ \E call \in Requests :
       call.prompt # NoPrompt /\ TextLen(call.message) = 2001
  /\ \E call \in Requests :
       call.prompt # NoPrompt /\ TextLen(call.message) = 2000

(***************************************************************************)
(* C15.  A ChatWidget never has more than one send-message request in      *)
(* flight: from the submission of a message until its response (success    *)
(* or error) has been handled, sending is disabled, and the loading state  *)
(* is cleared once the response is handled.                                *)
(***************************************************************************)
Unhandled ==
  Copies({ call \in Requests : call.via = "http" /\ call.pc # "closed" })

C15_OneSendInFlight ==
  /\ Unhandled <= 1
  /\ widget.isLoading <=> Unhandled = 1
  /\ widget.isLoading => \A t \in WidgetTexts : ~ENABLED WidgetSubmit(t)

(* an error response and a success response have both been handled *)
C15_Witness ==
  /\ ~widget.isLoading
  /\ \E call \in Requests : call.pc = "closed" /\ call.out.status = 500
  /\ \E call \in Requests : call.pc = "closed" /\ call.out.status = 200

(***************************************************************************)
(* C16.  After the New conversation button is pressed, the stored          *)
(* sessionId is cleared and stays cleared until a reply to a message sent  *)
(* after the press arrives, so that the next message carries no            *)
(* sessionId, also when the response to a message sent before the press    *)
(* arrives after the press.                                                *)
(***************************************************************************)
C16_NewConversationStaysFresh ==
  widget.fresh =>
    /\ widget.stored = Undefined
    /\ widget.sessionId = Undefined

(***************************************************************************)
(* C17.  When the ChatWidget initializes with a sessionId stored in        *)
(* localStorage and the backend holds a Conversation with Messages for it, *)
(* the message list of the widget becomes the welcome message followed by  *)
(* the Messages of that Conversation, in order.                            *)
(***************************************************************************)
C17_HistoryRestored ==
  (/\ widget.phase = "ready"
   /\ BagCardinality(calls) = 0
   /\ ~widget.fresh
   /\ Truthy(widget.sessionId)
   /\ FindUnique(widget.sessionId) # 0
   /\ Len(messages[FindUnique(widget.sessionId)]) > 0)
  => LET rows == messages[FindUnique(widget.sessionId)]
     IN /\ Len(widget.messages) = 1 + Len(rows)
        /\ widget.messages[1] = WelcomeMessage
        /\ \A k \in 1..Len(rows) : widget.messages[k + 1].text = rows[k].text

(***************************************************************************)
(* C21.  For every supplied history of n entries, the transcript of the    *)
(* prompt consists of exactly the last min(5, n) entries, in the supplied  *)
(* order, each labelled Customer when its sender is USER and Support Agent *)
(* otherwise; it never shows more than 5 entries, and it stands after the  *)
(* knowledge block and before the line that embeds the current question.   *)
(***************************************************************************)
BlockAt(prompt, name) ==
  { i \in 1..Len(prompt) : prompt[i].block = name }

Transcript(prompt) ==
  IF BlockAt(prompt, "history") = {} THEN << >>
  ELSE prompt[CHOOSE i \in BlockAt(prompt, "history") : TRUE].lines

C21_PromptTranscript ==
  \A call \in Requests :
    call.prompt # NoPrompt =>
      LET n == Len(call.history)
          m == IF n < PromptWindow THEN n ELSE PromptWindow
          shown == Transcript(call.prompt)
      IN /\ Len(shown) = m
         /\ Len(shown) <= PromptWindow
         /\ \A k \in 1..m :
              /\ shown[k].text = call.history[n - m + k].text
              /\ shown[k].role =
                   IF call.history[n - m + k].sender = "USER"
                   THEN "Customer" ELSE "Support Agent"
         /\ Cardinality(BlockAt(call.prompt, "knowledge")) = 1
         /\ Cardinality(BlockAt(call.prompt, "question")) = 1
         /\ Cardinality(BlockAt(call.prompt, "history")) <= 1
         /\ \A i \in BlockAt(call.prompt, "history") :
              /\ \A j \in BlockAt(call.prompt, "knowledge") : j < i
              /\ \A j \in BlockAt(call.prompt, "question") : i < j

(* one caller supplied more than 5 entries, another fewer, the senders of  *)
(* the two histories alternating from different ends                       *)
C21_Witness ==
  \E c1 \in Requests, c2 \in Requests :
    /\ c1.via = "generateReply" /\ c2.via = "generateReply"
    /\ Len(c1.history) > PromptWindow
    /\ Len(Transcript(c1.prompt)) = PromptWindow
    /\ Transcript(c1.prompt)[1].text = c1.history[2].text
    /\ Len(c2.history) \in 1..(PromptWindow - 1)
    /\ Len(Transcript(c2.prompt)) = Len(c2.history)
    /\ c1.history[1].sender = "USER" /\ c2.history[1].sender = "AI"
    /\ Transcript(c2.prompt)[1].role = "Support Agent"

(***************************************************************************)
(* C22.  When the backend returns an empty response, generateReply fails   *)
(* exactly as it does for any other backend failure: it throws the same    *)
(* error as for a failure that is neither an authentication nor a quota    *)
(* failure and returns no content.  processMessage then answers with the   *)
(* fixed fallback reply, and no empty AI reply is persisted or returned.   *)
(***************************************************************************)
Generated == { call \in Requests : call.via = "generateReply" }

AIMessages ==
  { m \in UNION { Range(messages[v]) : v \in 1..Len(messages) } :
      m.sender = "AI" }

C22_EmptyResponseIsFailure ==
  /\ \A call \in Generated :
       (provider = "gemini" /\ call.body.answer = EmptyResponse) =>
         /\ call.out.kind = "throw"
         /\ call.out.error = ErrUnable
         /\ call.llmResponse = NoLLM
         /\ \A other \in Generated :
              (other.body.answer.kind = "throw"
                 /\ MapLLMError(other.body.answer.error) = ErrUnable) =>
                other.out = call.out
  /\ \A call \in Requests \ Generated :
       /\ call.llmFailed => call.llmResponse.content = FallbackReply
       /\ Succeeded(call) => call.out.data.reply # << >>
  /\ \A m \in AIMessages : m.text # << >>

(* the backend answered a caller of generateReply with an empty text, and  *)
(* processMessage, its own invocation of generateReply having failed,      *)
(* persisted and returned the fallback                                     *)
C22_Witness ==
  /\ provider = "gemini"
  /\ \E c1 \in Generated :
       /\ c1.body.answer = EmptyResponse /\ c1.out.error = ErrUnable
       /\ c1.llmFailed
  /\ \E call \in Requests \ Generated :
       /\ Succeeded(call) /\ call.llmFailed
       /\ call.out.data.reply = FallbackReply
       /\ StoredMessage(call.aiMessage).text = FallbackReply

(***************************************************************************)
(* C23.  When the configured provider is not a supported one, generateReply *)
(* fails, and the error it throws is none of the errors it throws for      *)
(* failures of the backend (authentication, rate or quota, other).         *)
(***************************************************************************)
BackendFailureErrors ==
  { MapLLMError(b.error) : b \in { x \in BackendOutcomes : x.kind = "throw" } }

C23_UnsupportedProviderDistinct ==
  \A call \in Generated :
    provider # "gemini" =>
      /\ call.out.kind = "throw"
      /\ call.out.error \notin BackendFailureErrors

(***************************************************************************)
(* C24.  No error is retried.  Every step of a processMessage call moves   *)
(* the call forward in the order of the program, so the LLM is invoked at  *)
(* most once and each store write is issued at most once; a step that      *)
(* fails ends the call unless it is the LLM invocation, and the store      *)
(* changes by exactly the one write of the step taken: one Message row for *)
(* a successful write of the user or AI Message, one touch of updatedAt    *)
(* for a successful update, nothing otherwise.                             *)
(***************************************************************************)
PcRank(pc) ==
  CASE pc = "new" -> 0
    [] pc = "findUnique" -> 1
    [] pc = "create" -> 2
    [] pc = "saveUser" -> 3
    [] pc = "history" -> 4
    [] pc = "llm" -> 5
    [] pc = "saveAI" -> 6
    [] pc = "update" -> 7
    [] OTHER -> 8

RECURSIVE Rows(_, _)
Rows(table, n) == IF n = 0 THEN 0 ELSE Len(table[n]) + Rows(table, n - 1)

RECURSIVE Touches(_, _)
Touches(table, n) ==
  IF n = 0 THEN 0 ELSE table[n].updatedAt + Touches(table, n - 1)

C24_NoRetry ==
  [][ /\ (messages' # messages \/ conversations' # conversations) =>
           \E old \in Requests : Stale(old)
      /\ \A old \in Requests :
           Stale(old) =>
             \E new \in BagToSet(calls') :
               /\ Fresh(new)
               /\ PcRank(new.pc) > PcRank(old.pc)
               /\ (new.llmResponse # old.llmResponse) = (old.pc = "llm")
               /\ Rows(messages', Len(messages')) - Rows(messages, Len(messages))
                    = IF old.pc \in { "saveUser", "saveAI" } /\ ~Done(new)
                      THEN 1 ELSE 0
               /\ Touches(conversations', Len(conversations'))
                    - Touches(conversations, Len(conversations))
                    = IF old.pc = "update" /\ Succeeded(new) THEN 1 ELSE 0
               /\ (Done(new) /\ ~Succeeded(new)) =>
                    /\ new.userMessage = old.userMessage
                    /\ new.aiMessage = old.aiMessage ]_vars

(* one call ended by a store failure after its user Message was written,   *)
(* which is in the store once, and another answered with the fallback      *)
(* after its one LLM invocation failed                                     *)
C24_Witness ==
  /\ \E call \in Requests :
       /\ Done(call) /\ call.out.error = ErrStore
       /\ call.userMessage # NoMessage /\ call.aiMessage = NoMessage
  /\ \E call \in Requests :
       /\ Succeeded(call) /\ call.llmFailed
  /\ Rows(messages, Len(messages)) = 3

(***************************************************************************)
(* C25.  In every processMessage call, whatever the length of the          *)
(* conversation, the history that the call has read and hands to the LLM   *)
(* contains the USER Message that the same call persisted before.          *)
(***************************************************************************)
C25_HistoryHoldsOwnMessage ==
  \A call \in Requests :
    (PcRank(call.pc) > PcRank("history") /\ call.userMessage # NoMessage) =>
      \E k \in 1..Len(call.history) :
        /\ call.history[k].createdAt = call.userMessage[2]
        /\ call.history[k].sender = "USER"
        /\ call.history[k].text = call.message

(***************************************************************************)
(* C26.  In every reachable state, those left by a store failure or a      *)
(* crash between two steps and those reached by concurrent calls on one    *)
(* session included, each conversation holds at most as many AI Messages   *)
(* as USER Messages, every AI Message was written by a call after the USER *)
(* Message of that call, and so an AI Message without its USER Message     *)
(* does not exist, while a USER Message without a reply can.               *)
(***************************************************************************)
CountOf(rows, sender) ==
  Cardinality({ k \in 1..Len(rows) : rows[k].sender = sender })

C26_RepliesFollowQuestions ==
  /\ \A v \in 1..Len(messages) :
       /\ CountOf(messages[v], "AI") <= CountOf(messages[v], "USER")
       /\ \A k \in 1..Len(messages[v]) :
            messages[v][k].sender = "AI" =>
              \E call \in Requests : call.aiMessage = << v, k >>
  /\ \A call \in Requests :
       call.aiMessage # NoMessage =>
         /\ call.userMessage # NoMessage
         /\ call.userMessage[1] = call.aiMessage[1]
         /\ StoredMessage(call.userMessage).sender = "USER"
         /\ StoredMessage(call.aiMessage).sender = "AI"
         /\ StoredMessage(call.userMessage).createdAt
              < StoredMessage(call.aiMessage).createdAt
         /\ CopiesIn(call, calls) = 1

(* two calls on one session have ended: one was answered, the other was    *)
(* ended by a store failure after its user Message was written, which      *)
(* stays in the conversation without a reply                               *)
C26_Witness ==
  /\ \A call \in Requests : Done(call)
  /\ \E c1 \in Requests, c2 \in Requests :
       /\ Succeeded(c1)
       /\ c2.out.error = ErrStore
       /\ c2.userMessage # NoMessage /\ c2.aiMessage = NoMessage
       /\ c2.conversation = c1.conversation
       /\ CountOf(messages[c1.conversation], "USER") = 2
       /\ CountOf(messages[c1.conversation], "AI") = 1

(***************************************************************************)
(* C27.  Two calls supply the same unknown sessionId and both find no      *)
(* Conversation before either creates one.  The store accepts exactly one  *)
(* create.  The call whose create is rejected fails with an error: its     *)
(* step leaves the store unchanged, it has persisted no Message, and it is *)
(* not redirected to the Conversation the other call created.              *)
(***************************************************************************)
WithSessionId(table, sid) ==
  { i \in 1..Len(table) : table[i].sessionId = sid }

C27_RacedCreate ==
  [][ \A old \in Requests :
        (Stale(old) /\ old.pc = "create" /\ Truthy(old.sessionId)) =>
          \E new \in BagToSet(calls') :
            /\ Fresh(new)
            /\ Cardinality(WithSessionId(conversations', old.sessionId)) = 1
            /\ IF WithSessionId(conversations, old.sessionId) = {}
               THEN /\ new.created /\ new.pc = "saveUser"
                    /\ new.conversation
                         \in WithSessionId(conversations', old.sessionId)
                    /\ Len(conversations') = Len(conversations) + 1
               ELSE /\ Done(new) /\ new.out.kind = "throw"
                    /\ new.out.error = ErrUnique
                    /\ ~new.created /\ new.conversation = 0
                    /\ new.userMessage = NoMessage
                    /\ new.aiMessage = NoMessage
                    /\ new.llmResponse = NoLLM
                    /\ conversations' = conversations
                    /\ messages' = messages ]_vars

(* both calls missed in the lookup; one created the Conversation and was   *)
(* answered, the other was rejected, and the Conversation holds the two    *)
(* Messages of the first alone                                             *)
C27_Witness ==
  \E winner \in Requests, loser \in Requests :
    /\ winner.sessionId = loser.sessionId
    /\ Truthy(winner.sessionId)
    /\ ~winner.known /\ ~loser.known
    /\ Succeeded(winner) /\ winner.created
    /\ Done(loser) /\ loser.out.error = ErrUnique
    /\ loser.conversation = 0
    /\ Len(messages[winner.conversation]) = 2
    /\ Cardinality(WithSessionId(conversations, loser.sessionId)) = 1

(***************************************************************************)
(* C28.  When processMessage fails validation (empty, whitespace-only or   *)
(* too long a text), with or without a sessionId, the call ends at once    *)
(* with an error and the whole store is as it was: no Conversation is      *)
(* created, no Message is created, no updatedAt is touched; the LLM is     *)
(* not invoked.                                                            *)
(***************************************************************************)
Invalid(t) == Blank(t) \/ TextLen(t) > MaxMessageLength

C28_InvalidLeavesNoTrace ==
  [][ \A new \in BagToSet(calls') :
        (Fresh(new) /\ new.via = "direct" /\ Invalid(new.message)) =>
          /\ Done(new) /\ new.out.kind = "throw"
          /\ new.out.error \in { ErrEmpty, ErrTooLong }
          /\ conversations' = conversations
          /\ messages' = messages
          /\ mintCount' = mintCount
          /\ new.conversation = 0 /\ ~new.created
          /\ new.userMessage = NoMessage /\ new.aiMessage = NoMessage
          /\ new.prompt = NoPrompt /\ new.llmResponse = NoLLM
          /\ ~new.llmFailed ]_vars

(* a store that holds a conversation; an empty text and a text over the    *)
(* limit were both refused                                                 *)
C28_Witness ==
  /\ Len(conversations) = 1
  /\ Len(messages[1]) = 2 * conversations[1].updatedAt
  /\ conversations[1].updatedAt > 0
  /\ \E c1 \in Requests, c2 \in Requests :
       /\ c1.via = "direct" /\ c2.via = "direct"
       /\ c1.message = << >> /\ c1.out.error = ErrEmpty
       /\ TextLen(c2.message) > MaxMessageLength /\ ~Blank(c2.message)
       /\ c2.out.error = ErrTooLong

(***************************************************************************)
(* C29.  Every successful processMessage response is consistent with the   *)
(* store: messageId is the id of the AI Message that the call persisted,   *)
(* the text of that Message is the reply, its conversationId is the        *)
(* returned conversationId, and the returned sessionId is the sessionId of *)
(* the Conversation with that conversationId.                              *)
(***************************************************************************)
C29_ResponseMatchesStore ==
  \A call \in Requests :
    (Succeeded(call) /\ call.via = "direct") =>
      LET d == call.out.data
      IN /\ d.messageId = call.aiMessage
         /\ d.messageId # NoMessage
         /\ d.messageId[1] \in 1..Len(messages)
         /\ d.messageId[2] \in 1..Len(messages[d.messageId[1]])
         /\ StoredMessage(d.messageId).sender = "AI"
         /\ StoredMessage(d.messageId).text = d.reply
         /\ StoredMessage(d.messageId).conversationId = d.conversationId
         /\ d.conversationId \in 1..Len(conversations)
         /\ conversations[d.conversationId].sessionId = d.sessionId

(* a call without sessionId was answered with a minted one, and a second   *)
(* call that sent it back was answered from the same Conversation with     *)
(* another Message                                                         *)
C29_Witness ==
  \E c1 \in Requests, c2 \in Requests :
    /\ Succeeded(c1) /\ Succeeded(c2)
    /\ c1.created /\ ~Truthy(c1.sessionId)
    /\ c2.sessionId = c1.out.data.sessionId
    /\ c2.out.data.conversationId = c1.out.data.conversationId
    /\ c2.out.data.messageId # c1.out.data.messageId
    /\ c2.out.data.sessionId = c1.out.data.sessionId

(***************************************************************************)
(* C30.  Every USER Message persisted through the POST endpoints has a     *)
(* text that is non-empty, at most 5000 characters long after the          *)
(* middleware has replaced the angle brackets by entities, and free of     *)
(* angle brackets; a request whose sanitized text exceeds 5000 characters  *)
(* persists no Message, and none longer than 5000 characters is persisted. *)
(***************************************************************************)
UserMessages ==
  { m \in UNION { Range(messages[v]) : v \in 1..Len(messages) } :
      m.sender = "USER" }

C30_PersistedTextSanitized ==
  /\ \A m \in UserMessages :
       /\ TextLen(m.text) \in 1..MaxMessageLength
       /\ \A k \in 1..Len(m.text) : m.text[k].u \notin { "<", ">" }
  /\ \A call \in Requests :
       call.via = "http" =>
         /\ (call.body.kind = "string"
               /\ TextLen(call.body.text) > MaxMessageLength) =>
              (call.userMessage = NoMessage /\ ~Succeeded(call))
         /\ call.userMessage # NoMessage =>
              /\ StoredMessage(call.userMessage).text = call.message
              /\ call.message = call.body.text

(* the text of 4999 letters and one angle bracket was accepted by the      *)
(* middleware that cuts the sanitized text; the Message persisted has 5000 *)
(* characters, the last one the first character of the entity              *)
C30_Witness ==
  \E call \in Requests :
    /\ call.via = "http" /\ Succeeded(call)
    /\ TextLen(StoredMessage(call.userMessage).text) = MaxMessageLength
    /\ StoredMessage(call.userMessage).text
         = << Run("a", MaxMessageLength - 1), Run("&", 1) >>

====
